---- MODULE Spec2Model ----
(***************************************************************************)
(* A model of dxr/trigrammer.py: the Substring-Tree values (strings, And,  *)
(* Or, the USELESS sentinel), the And and Or builders, the simplifier, the *)
(* TrigramTreeVisitor over parsed regexes and the trigram_query entry      *)
(* point.                                                                  *)
(*                                                                         *)
(* A Python string is a sequence of one-character strings.  Every value    *)
(* the code passes around is a record [k, s, c]: k is the class ("str",    *)
(* "And", "Or", "Useless"), s the characters of a string, c the list of    *)
(* children of a SubstringTree.  An exception that leaves a function is    *)
(* the value [k |-> "Error", s |-> <<name of the exception>>].             *)
(***************************************************************************)
EXTENDS Integers, Sequences, FiniteSets, TLC

\* trigrammer.py:20
NGRAM_LENGTH == 3

\* Bounds of the model.
MaxNodes == 4
MaxAppends == 3
MaxCalls == 3
MaxBranches == 3
MaxSize == 4
MaxText == 4

VARIABLES
    \* the simplifier: its input, the result of one and of two passes
    T, s1, s2, spc,
    \* an And under construction: the list, its string_was_interrupted
    \* attribute, and the things appended so far
    a_children, a_interrupted, a_hist,
    \* a chain of Or.appended / Or.extended calls: the value the last call
    \* returned, the branches passed so far, the number of calls
    o_val, o_hist, o_calls,
    \* a regex through the visitor and the simplifier, or through
    \* trigram_query: the parsed regex, the visitor's tree, the simplified
    \* tree, the value of trigram_query
    regex, pc, tree, simple, query

svars == <<T, s1, s2, spc>>
avars == <<a_children, a_interrupted, a_hist>>
ovars == <<o_val, o_hist, o_calls>>
pvars == <<regex, pc, tree, simple, query>>
vars == <<T, s1, s2, spc, a_children, a_interrupted, a_hist, o_val, o_hist, o_calls,
          regex, pc, tree, simple, query>>

---------------------------------------------------------------------------
(* Values *)

Str(chars) == [k |-> "str", s |-> chars, c |-> <<>>]

\* A SubstringTree instance of class cls (And, Or) holding the list kids.
SubstringTree(cls, kids) == [k |-> cls, s |-> <<>>, c |-> kids]

\* The singleton of class Useless, a SubstringTree with no children.
USELESS == [k |-> "Useless", s |-> <<>>, c |-> <<>>]

\* An exception raised by the code.
Raise(name) == [k |-> "Error", s |-> <<name>>, c |-> <<>>]

IsError(v) == v.k = "Error"

\* A variable not yet assigned.
None == [k |-> "None", s |-> <<>>, c |-> <<>>]

\* Python truth of a value, as filter(None, ...) tests it: a string or a
\* list is true iff it is not empty.
Truthy(v) == IF v.k = "str" THEN v.s # <<>> ELSE v.c # <<>>

---------------------------------------------------------------------------
(* SubstringTree.simplified and its inner dispatcher *)

\* The mutant of simplified: empty children are filtered before, not after,
\* the children are simplified.
RECURSIVE simplified_filter_first(_)
simplified_filter_first(self) ==
    IF self.k = "str"
    THEN IF Len(self.s) >= NGRAM_LENGTH THEN self ELSE Str(<<>>)
    ELSE LET kept == SelectSeq(self.c, Truthy)
             simple_children ==
                 [i \in 1..Len(kept) |-> simplified_filter_first(kept[i])]
         IN  IF Len(simple_children) > 1
             THEN SubstringTree(self.k, simple_children)
             ELSE IF Len(simple_children) = 1
                  THEN simple_children[1]
                  ELSE Str(<<>>)

\* The mutant of simplified: a Useless is returned as it is.
RECURSIVE simplified_useless_unchanged(_)
simplified_useless_unchanged(self) ==
    IF self.k = "str"
    THEN IF Len(self.s) >= NGRAM_LENGTH THEN self ELSE Str(<<>>)
    ELSE IF self.k = "Useless"
    THEN self
    ELSE LET simple_children ==
                 SelectSeq([i \in 1..Len(self.c) |->
                                simplified_useless_unchanged(self.c[i])],
                           Truthy)
         IN  IF Len(simple_children) > 1
             THEN SubstringTree(self.k, simple_children)
             ELSE IF Len(simple_children) = 1
                  THEN simple_children[1]
                  ELSE Str(<<>>)

\* simplified(x): the inner function simplified(tree_or_string) when x is a
\* string, the method x.simplified() when x is a node.
RECURSIVE simplified(_)
simplified(self) ==
    IF self.k = "str"
    THEN IF Len(self.s) >= NGRAM_LENGTH THEN self ELSE Str(<<>>)
    ELSE LET simple_children ==
                 SelectSeq([i \in 1..Len(self.c) |-> simplified(self.c[i])],
                           Truthy)
         IN  IF Len(simple_children) > 1
             THEN SubstringTree(self.k, simple_children)
             ELSE IF Len(simple_children) = 1
                  THEN simple_children[1]
                  ELSE Str(<<>>)

---------------------------------------------------------------------------
(* class And *)

\* The mutant of And_appended: USELESS is ignored altogether, the flag is
\* left as it was.
And_appended_keeps_run(self, thing) ==
    IF thing = USELESS
    THEN self
    ELSE IF thing.k = "str"
         THEN IF self.string_was_interrupted
              THEN [c |-> Append(self.c, thing), string_was_interrupted |-> FALSE]
              ELSE [self EXCEPT !.c[Len(self.c)] = Str(@.s \o thing.s)]
         ELSE [c |-> Append(self.c, thing), string_was_interrupted |-> TRUE]

\* And(): an empty list; string_was_interrupted is the class attribute.
And_new == [c |-> <<>>, string_was_interrupted |-> TRUE]

\* And.appended(thing); the And is [c, string_was_interrupted].
And_appended(self, thing) ==
    IF thing = USELESS
    THEN [self EXCEPT !.string_was_interrupted = TRUE]
    ELSE IF thing.k = "str"
         THEN IF self.string_was_interrupted
              THEN [c |-> Append(self.c, thing), string_was_interrupted |-> FALSE]
              ELSE [self EXCEPT !.c[Len(self.c)] = Str(@.s \o thing.s)]
         ELSE [c |-> Append(self.c, thing), string_was_interrupted |-> TRUE]

\* And.extended(things): appended, thing by thing.
RECURSIVE And_extended(_, _)
And_extended(self, things) ==
    IF things = <<>> THEN self
    ELSE And_extended(And_appended(self, Head(things)), Tail(things))

---------------------------------------------------------------------------
(* class Or, class Useless, SubstringTree.__eq__ *)

\* The mutant of SubstringTree___eq__: list equality alone, the classes are
\* not compared.
eq_without_class(self, other) == other.k # "str" /\ self.c = other.c

\* SubstringTree.__eq__: the same class and equal lists.
SubstringTree___eq__(self, other) == self.k = other.k /\ self.c = other.c

\* x in branches: some element is x or equals x.
Contains(branches, x) ==
    \E i \in 1..Len(branches) :
        branches[i] = x \/ SubstringTree___eq__(x, branches[i])

Useless_appended(self, branch) == self

Useless_extended(self, branches) == self

Or_appended(self, branch) ==
    IF branch = USELESS THEN USELESS
    ELSE SubstringTree("Or", Append(self.c, branch))

Or_extended(self, branches) ==
    IF Contains(branches, USELESS) THEN USELESS
    ELSE SubstringTree("Or", self.c \o branches)

\* o.appended(branch) and o.extended(branches), dispatched on the class of o.
appended(o, branch) ==
    IF o.k = "Useless" THEN Useless_appended(o, branch) ELSE Or_appended(o, branch)

extended(o, branches) ==
    IF o.k = "Useless" THEN Useless_extended(o, branches) ELSE Or_extended(o, branches)

---------------------------------------------------------------------------
(* A parsed regex (regex_grammar)                                          *)
(*                                                                         *)
(* regexp = a non-empty sequence of branches; branch = a sequence of       *)
(* pieces; a piece is [atom, ch, q, rr, sub]: atom names the rule that     *)
(* matched the atom, ch is its text (the character of a literal_char or a  *)
(* backslash_normal, the letter of a backslash_special, the text of a      *)
(* backslash_hex, the one class_char of a class, "\\x" when that is a hex  *)
(* escape), q is the quantifier ("" for none, "{" for a repeat), rr the    *)
(* numbers of the repeat_range and sub the regexp of a group.              *)

Piece(atom, ch, q, rr, sub) == [atom |-> atom, ch |-> ch, q |-> q, rr |-> rr, sub |-> sub]

\* What a visit method returns besides Substring-Tree values: a (min, max)
\* tuple, with -1 for '', and a parse node left as it is by generic_visit.
Tuple(min, max) == [k |-> "tuple", min |-> min, max |-> max]

ParseNode(text) == [k |-> "node", text |-> text]

\* The first exception raised while the children are visited in order, or
\* None when no child raises.
FirstError(values) ==
    IF \E i \in 1..Len(values) : IsError(values[i])
    THEN values[CHOOSE i \in 1..Len(values) :
                    /\ IsError(values[i])
                    /\ \A j \in 1..(i - 1) : ~IsError(values[j])]
    ELSE None

---------------------------------------------------------------------------
(* class TrigramTreeVisitor: the visit methods, on visited children *)

BACKSLASH_SPECIAL_CHARS == {"A", "b", "B", "d", "D", "s", "S", "w", "W", "Z"}

\* The characters \a, \x1B and \v are written BEL, ESC and VT.
backslash_specials == [a |-> "BEL", e |-> "ESC", f |-> "\f", n |-> "\n",
                       r |-> "\r", t |-> "\t", v |-> "VT"]

quantifier_expansions == [x \in {"*", "+", "?"} |->
                              CASE x = "*" -> Tuple(0, -1)
                                [] x = "+" -> Tuple(1, -1)
                                [] x = "?" -> Tuple(0, 1)]

generic_visit(node) == node

visit_hat == USELESS

visit_literal_char(text) == Str(<<text>>)

visit_backslash_special(text) ==
    IF text \in DOMAIN backslash_specials
    THEN Str(<<backslash_specials[text]>>)
    ELSE USELESS

\* chr(backslash_char.text[1:]): the name backslash_char is not defined.
visit_backslash_hex(text) == Raise("NameError")

visit_backslash_normal(text) == Str(<<text>>)

visit_backslash_char(operand) == operand

visit_class(children) == USELESS

\* int(number) on a parse node.
visit_number(number) == Raise("TypeError")

visit_repeat_range(numbers) ==
    Tuple(numbers[1], IF Len(numbers) = 1 THEN -1 ELSE numbers[2])

visit_repeat(repeat_range) == repeat_range

\* quantifier.text: a tuple has no attribute text.
visit_quantifier(quantifier) ==
    IF quantifier.k = "tuple"
    THEN Raise("AttributeError")
    ELSE IF quantifier.text \in DOMAIN quantifier_expansions
         THEN quantifier_expansions[quantifier.text]
         ELSE quantifier

visit_quantified(atom, quantifier) == IF quantifier.min # 0 THEN atom ELSE USELESS

visit_group(regexp) == regexp

visit_branch(pieces) ==
    LET a == And_extended(And_new, pieces)
    IN  IF a.c = <<>>
        THEN SubstringTree("And", Append(a.c, Str(<<>>)))
        ELSE SubstringTree("And", a.c)

visit_another_branch(branch) == branch

visit_more_branches(branches) == branches

visit_regexp(branch, other_branches) ==
    LET o == appended(SubstringTree("Or", <<>>), branch)
    IN  extended(o, other_branches)

---------------------------------------------------------------------------
(* NodeVisitor.visit on each rule: the children are visited first, in      *)
(* order, the rule's visit method is applied to their values, and an       *)
(* exception raised in a child ends the visit.                             *)

Visit_char(p) ==
    CASE p.atom = "literal_char" -> visit_literal_char(p.ch)
      [] p.atom = "backslash_special" ->
             visit_backslash_char(visit_backslash_special(p.ch))
      [] p.atom = "backslash_hex" ->
             LET operand == visit_backslash_hex(p.ch)
             IN  IF IsError(operand) THEN operand ELSE visit_backslash_char(operand)
      [] p.atom = "backslash_normal" ->
             visit_backslash_char(visit_backslash_normal(p.ch))

\* A class holding the one class_char p.ch.
Visit_class(p) ==
    LET initial_class_char ==
            IF p.ch = "\\x" THEN visit_backslash_hex("x41")
            ELSE generic_visit(ParseNode(p.ch))
    IN  IF IsError(initial_class_char) THEN initial_class_char
        ELSE visit_class(<<initial_class_char>>)

Visit_quantifier(p) ==
    IF p.q = "{"
    THEN LET numbers == [i \in 1..Len(p.rr) |-> visit_number(p.rr[i])]
         IN  IF FirstError(numbers) # None THEN FirstError(numbers)
             ELSE visit_quantifier(visit_repeat(visit_repeat_range(p.rr)))
    ELSE visit_quantifier(generic_visit(ParseNode(p.q)))

RECURSIVE Visit_regexp(_)
Visit_atom(p) ==
    CASE p.atom = "group" ->
             LET regexp == Visit_regexp(p.sub)
             IN  IF IsError(regexp) THEN regexp ELSE visit_group(regexp)
      [] p.atom = "class" -> Visit_class(p)
      [] p.atom \in {"hat", "dollars", "dot"} -> visit_hat
      [] OTHER -> Visit_char(p)

Visit_piece(p) ==
    IF p.q = ""
    THEN Visit_atom(p)
    ELSE LET atom == Visit_atom(p)
             quantifier == Visit_quantifier(p)
         IN  IF IsError(atom) THEN atom
             ELSE IF IsError(quantifier) THEN quantifier
             ELSE visit_quantified(atom, quantifier)

Visit_branch(b) ==
    LET pieces == [i \in 1..Len(b) |-> Visit_piece(b[i])]
    IN  IF FirstError(pieces) # None THEN FirstError(pieces)
        ELSE visit_branch(pieces)

Visit_regexp(r) ==
    LET branches == [i \in 1..Len(r) |-> Visit_branch(r[i])]
    IN  IF FirstError(branches) # None THEN FirstError(branches)
        ELSE visit_regexp(branches[1],
                          visit_more_branches(
                              [i \in 1..(Len(r) - 1) |->
                                   visit_another_branch(branches[i + 1])]))

---------------------------------------------------------------------------
(* trigram_query *)

\* self.can_match_empty = can_match_empty: the name is not defined.
RegexSummary___init__(r) == Raise("NameError")

trigram_query(r) ==
    LET summary == RegexSummary___init__(r)
    IN  IF IsError(summary) THEN summary
        ELSE Raise("AttributeError")

---------------------------------------------------------------------------
(* Inputs of the simplifier: every tree of at most MaxNodes nodes *)

LeafStrings == { <<>>, <<"a", "b">>, <<"a", "b", "c">> }

RECURSIVE TreesOfSize(_), ForestsOfSize(_)
TreesOfSize(n) ==
    (IF n = 1 THEN {Str(s) : s \in LeafStrings} \cup {USELESS} ELSE {})
    \cup { SubstringTree(cls, f) : cls \in {"And", "Or"}, f \in ForestsOfSize(n - 1) }

ForestsOfSize(m) ==
    IF m = 0 THEN { <<>> }
    ELSE UNION { { <<t>> \o f : t \in TreesOfSize(n), f \in ForestsOfSize(m - n) }
                 : n \in 1..m }

Trees(max) == UNION { TreesOfSize(n) : n \in 1..max }

---------------------------------------------------------------------------
(* An And built by a sequence of appended calls *)

\* What is appended: strings, USELESS, And and Or nodes.
Things == { Str(<<>>), Str(<<"a">>), Str(<<"b">>), USELESS,
            SubstringTree("And", <<>>),
            SubstringTree("Or", <<SubstringTree("And", <<Str(<<"a">>)>>)>>) }

AInit == /\ a_children = And_new.c
         /\ a_interrupted = And_new.string_was_interrupted
         /\ a_hist = <<>>
         /\ T = None /\ s1 = None /\ s2 = None /\ spc = "idle"
         /\ o_val = None /\ o_hist = <<>> /\ o_calls = 0
         /\ regex = <<>> /\ pc = "idle" /\ tree = None /\ simple = None /\ query = None

\* The And of the state, and the state after a.appended(thing) returned a.
TheAnd == [c |-> a_children, string_was_interrupted |-> a_interrupted]

AndBecomes(a, thing) ==
    /\ a_children' = a.c
    /\ a_interrupted' = a.string_was_interrupted
    /\ a_hist' = Append(a_hist, thing)

AppendString ==
    /\ Len(a_hist) < MaxAppends
    /\ \E thing \in { t \in Things : t.k = "str" } :
         AndBecomes(And_appended(TheAnd, thing), thing)
    /\ UNCHANGED <<svars, ovars, pvars>>

AppendUseless ==
    /\ Len(a_hist) < MaxAppends
    /\ AndBecomes(And_appended(TheAnd, USELESS), USELESS)
    /\ UNCHANGED <<svars, ovars, pvars>>

AppendNode ==
    /\ Len(a_hist) < MaxAppends
    /\ \E thing \in { t \in Things : t.k \in {"And", "Or"} } :
         AndBecomes(And_appended(TheAnd, thing), thing)
    /\ UNCHANGED <<svars, ovars, pvars>>

ANext == AppendString \/ AppendUseless \/ AppendNode

SpecAnd == AInit /\ [][ANext]_vars

---------------------------------------------------------------------------
(* An Or built by a chain of appended and extended calls *)

Branches == { USELESS, Str(<<"a", "b", "c">>), SubstringTree("And", <<>>),
              SubstringTree("Or", <<>>),
              SubstringTree("And", <<Str(<<"a", "b", "c">>)>>) }

BranchLists == { <<>> } \cup { <<b>> : b \in Branches }
               \cup { <<b1, b2>> : b1 \in Branches, b2 \in Branches }

OInit == /\ o_val = SubstringTree("Or", <<>>)
         /\ o_hist = <<>>
         /\ o_calls = 0
         /\ T = None /\ s1 = None /\ s2 = None /\ spc = "idle"
         /\ a_children = <<>> /\ a_interrupted = TRUE /\ a_hist = <<>>
         /\ regex = <<>> /\ pc = "idle" /\ tree = None /\ simple = None /\ query = None

OrAppended ==
    /\ o_calls < MaxCalls
    /\ Len(o_hist) < MaxBranches
    /\ \E branch \in Branches :
         /\ o_val' = appended(o_val, branch)
         /\ o_hist' = Append(o_hist, branch)
    /\ o_calls' = o_calls + 1
    /\ UNCHANGED <<svars, avars, pvars>>

OrExtended ==
    /\ o_calls < MaxCalls
    /\ \E branches \in BranchLists :
         /\ Len(o_hist) + Len(branches) <= MaxBranches
         /\ o_val' = extended(o_val, branches)
         /\ o_hist' = o_hist \o branches
    /\ o_calls' = o_calls + 1
    /\ UNCHANGED <<svars, avars, pvars>>

ONext == OrAppended \/ OrExtended

SpecOr == OInit /\ [][ONext]_vars

---------------------------------------------------------------------------
(* Inputs of the visitor: every parsed regex of at most MaxSize, where a   *)
(* literal_char counts 1, any other atom 2, a quantifier 1, the            *)
(* parentheses of a group 1 and every "|" 1.                               *)

Quantifiers == { <<"*", <<>>>>, <<"+", <<>>>>, <<"?", <<>>>>,
                 <<"{", <<1>>>>, <<"{", <<0, 2>>>> }

LiteralAtoms == { <<"literal_char", "a">>, <<"literal_char", "b">> }

OtherAtoms == { <<"dot", "">>, <<"hat", "">>, <<"dollars", "">>,
                <<"class", "a">>, <<"class", "\\x">>,
                <<"backslash_special", "n">>, <<"backslash_special", "d">>,
                <<"backslash_hex", "x41">>, <<"backslash_normal", ".">> }

RECURSIVE RegexpsOfSize(_), BranchesOfSize(_), AtomsOfSize(_)
AtomsOfSize(n) ==
    (IF n = 1 THEN { Piece(a[1], a[2], "", <<>>, <<>>) : a \in LiteralAtoms } ELSE {})
    \cup (IF n = 2 THEN { Piece(a[1], a[2], "", <<>>, <<>>) : a \in OtherAtoms } ELSE {})
    \cup { Piece("group", "", "", <<>>, r) : r \in RegexpsOfSize(n - 1) }

PiecesOfSize(n) ==
    AtomsOfSize(n)
    \cup (IF n >= 2
          THEN { [p EXCEPT !.q = q[1], !.rr = q[2]] :
                     p \in AtomsOfSize(n - 1), q \in Quantifiers }
          ELSE {})

BranchesOfSize(m) ==
    IF m = 0 THEN { <<>> }
    ELSE UNION { { <<p>> \o b : p \in PiecesOfSize(n), b \in BranchesOfSize(m - n) }
                 : n \in 1..m }

RegexpsOfSize(m) ==
    IF m < 0 THEN {}
    ELSE { <<b>> : b \in BranchesOfSize(m) }
         \cup UNION { { <<b>> \o r : b \in BranchesOfSize(n),
                                     r \in RegexpsOfSize(m - 1 - n) }
                      : n \in 0..(m - 1) }

Regexps(max) == UNION { RegexpsOfSize(m) : m \in 0..max }

---------------------------------------------------------------------------
(* The simplifier, applied once and twice to a tree: any tree of at most   *)
(* MaxNodes nodes, or the tree the visitor makes of a regex.               *)

VisitedTrees(max) ==
    { t \in { Visit_regexp(r) : r \in Regexps(max) } : ~IsError(t) }

SInit == /\ T \in Trees(MaxNodes) \cup VisitedTrees(MaxSize)
         /\ s1 = None
         /\ s2 = None
         /\ spc = "input"
         /\ a_children = <<>> /\ a_interrupted = TRUE /\ a_hist = <<>>
         /\ o_val = None /\ o_hist = <<>> /\ o_calls = 0
         /\ regex = <<>> /\ pc = "idle" /\ tree = None /\ simple = None /\ query = None

SimplifyOnce == /\ spc = "input"
                /\ s1' = simplified(T)
                /\ spc' = "once"
                /\ UNCHANGED <<T, s2, avars, ovars, pvars>>

SimplifyTwice == /\ spc = "once"
                 /\ s2' = simplified(s1)
                 /\ spc' = "twice"
                 /\ UNCHANGED <<T, s1, avars, ovars, pvars>>

SNext == SimplifyOnce \/ SimplifyTwice

SpecSimplify == SInit /\ [][SNext]_vars

---------------------------------------------------------------------------
(* A regex through the visitor and the simplifier, or through trigram_query *)

PInit == /\ regex \in Regexps(MaxSize)
         /\ pc = "parsed"
         /\ tree = None /\ simple = None /\ query = None
         /\ T = None /\ s1 = None /\ s2 = None /\ spc = "idle"
         /\ a_children = <<>> /\ a_interrupted = TRUE /\ a_hist = <<>>
         /\ o_val = None /\ o_hist = <<>> /\ o_calls = 0

\* TrigramTreeVisitor().visit(regex_grammar.parse(regex))
Visit == /\ pc = "parsed"
         /\ tree' = Visit_regexp(regex)
         /\ pc' = IF IsError(tree') THEN "error" ELSE "visited"
         /\ UNCHANGED <<regex, simple, query, svars, avars, ovars>>

\* tree.simplified()
Simplify == /\ pc = "visited"
            /\ simple' = simplified(tree)
            /\ pc' = "simplified"
            /\ UNCHANGED <<regex, tree, query, svars, avars, ovars>>

\* trigram_query(regex)
TrigramQuery == /\ pc = "parsed"
                /\ query' = trigram_query(regex)
                /\ pc' = "queried"
                /\ UNCHANGED <<regex, tree, simple, svars, avars, ovars>>

Next == Visit \/ Simplify \/ TrigramQuery

Spec == PInit /\ [][Next]_vars

---------------------------------------------------------------------------
(* What the properties are stated with: the strings a regex matches, and   *)
(* the strings a Substring-Tree admits.                                    *)

TextChars == {"a", "b"}

Texts == UNION { [1..n -> TextChars] : n \in 0..MaxText }

\* Whether the one-character atom p matches the character ch.
CharMatches(p, ch) ==
    CASE p.atom \in {"literal_char", "backslash_normal"} -> ch = p.ch
      [] p.atom = "backslash_special" ->
             IF p.ch \in DOMAIN backslash_specials
             THEN ch = backslash_specials[p.ch]
             ELSE p.ch = "d" /\ ch \in {"0", "1"}
      [] p.atom = "backslash_hex" -> ch = "A"
      [] p.atom = "dot" -> ch # "\n"
      [] p.atom = "class" -> ch = (IF p.ch = "\\x" THEN "A" ELSE p.ch)
      [] OTHER -> FALSE

\* RegexpEnds(r, t, i): the positions j such that r matches t[i+1..j], as a
\* part of the whole text t.
RECURSIVE RegexpEnds(_, _, _), Closure(_, _, _), Times(_, _, _, _),
          BranchEnds(_, _, _, _)
AtomEnds(p, t, i) ==
    CASE p.atom = "group" -> RegexpEnds(p.sub, t, i)
      [] p.atom = "hat" -> IF i = 0 THEN {i} ELSE {}
      [] p.atom = "dollars" -> IF i = Len(t) THEN {i} ELSE {}
      [] OTHER -> IF i < Len(t) /\ CharMatches(p, t[i + 1]) THEN {i + 1} ELSE {}

AtomStep(p, t, S) == UNION { AtomEnds(p, t, j) : j \in S }

Closure(p, t, S) ==
    LET N == S \cup AtomStep(p, t, S)
    IN  IF N = S THEN S ELSE Closure(p, t, N)

Times(p, t, S, n) == IF n = 0 THEN S ELSE Times(p, t, AtomStep(p, t, S), n - 1)

PieceEnds(p, t, i) ==
    CASE p.q = "" -> AtomEnds(p, t, i)
      [] p.q = "*" -> Closure(p, t, {i})
      [] p.q = "+" -> Closure(p, t, AtomEnds(p, t, i))
      [] p.q = "?" -> {i} \cup AtomEnds(p, t, i)
      [] p.q = "{" ->
             UNION { Times(p, t, {i}, n) : n \in p.rr[1]..p.rr[Len(p.rr)] }

BranchEnds(b, t, S, n) ==
    IF n > Len(b) THEN S
    ELSE BranchEnds(b, t, UNION { PieceEnds(b[n], t, j) : j \in S }, n + 1)

RegexpEnds(r, t, i) == UNION { BranchEnds(r[n], t, {i}, 1) : n \in 1..Len(r) }

\* The regex r matches the whole of the text t.
Matches(r, t) == Len(t) \in RegexpEnds(r, t, 0)

IsSubstring(x, t) ==
    \E i \in 0..(Len(t) - Len(x)) : SubSeq(t, i + 1, i + Len(x)) = x

\* The text t satisfies the tree q: every string under an And occurs in t,
\* one child of every Or is satisfied, USELESS asks for nothing.
RECURSIVE Satisfies(_, _)
Satisfies(q, t) ==
    CASE q.k = "str" -> IsSubstring(q.s, t)
      [] q.k = "And" -> \A i \in 1..Len(q.c) : Satisfies(q.c[i], t)
      [] q.k = "Or" -> \E i \in 1..Len(q.c) : Satisfies(q.c[i], t)
      [] OTHER -> TRUE

\* The "no constraint" values.
NoConstraint == { Str(<<>>), USELESS }

\* A piece whose value is Useless by the rules of the transform.
UselessPiece(p) ==
    \/ p.atom \in {"dot", "hat", "dollars", "class"}
    \/ p.atom = "backslash_special" /\ p.ch \in BACKSLASH_SPECIAL_CHARS
    \/ p.q \in {"*", "?"}
    \/ p.q = "{" /\ p.rr[1] = 0

\* A branch that is empty, made of Useless pieces only, or too short for a
\* literal run of NGRAM_LENGTH.
NoGuaranteedSubstring(b) ==
    \/ \A i \in 1..Len(b) : UselessPiece(b[i])
    \/ Len(b) < NGRAM_LENGTH /\ \A i \in 1..Len(b) : b[i].atom # "group"

RECURSIVE Concat(_)
Concat(strs) == IF strs = <<>> THEN <<>> ELSE Head(strs).s \o Concat(Tail(strs))

\* The children an And is to have after the things h were appended: one
\* string per maximal run of strings, every node, no USELESS.
RECURSIVE RunsOf(_)
RunsOf(h) ==
    IF h = <<>> THEN <<>>
    ELSE LET n == Len(h)
         IN  IF h[n] = USELESS THEN RunsOf(SubSeq(h, 1, n - 1))
             ELSE IF h[n].k # "str" THEN Append(RunsOf(SubSeq(h, 1, n - 1)), h[n])
             ELSE LET j == CHOOSE j \in 1..n :
                               /\ \A i \in j..n : h[i].k = "str"
                               /\ j = 1 \/ h[j - 1].k # "str"
                  IN  Append(RunsOf(SubSeq(h, 1, j - 1)),
                             Str(Concat(SubSeq(h, j, n))))

\* The windows of NGRAM_LENGTH characters of the string x, left to right.
Windows(x) ==
    [i \in 1..(Len(x) - NGRAM_LENGTH + 1) |-> Str(SubSeq(x, i, i + NGRAM_LENGTH - 1))]

\* A regex of literal_char pieces only, and the string it spells.
PlainLiteral(r) ==
    /\ Len(r) = 1
    /\ \A i \in 1..Len(r[1]) : r[1][i].atom = "literal_char" /\ r[1][i].q = ""

LiteralOf(r) == [i \in 1..Len(r[1]) |-> r[1][i].ch]

\* A branch of literal_char atoms, quantified or not.
LiteralAtomsOnly(b) == \A i \in 1..Len(b) : b[i].atom = "literal_char"

\* The minimum count of a quantifier: 0 for * and ?, 1 for +, m for {m} and
\* {m,n}.
MinOf(p) ==
    CASE p.q \in {"*", "?"} -> 0
      [] p.q = "+" -> 1
      [] p.q = "{" -> p.rr[1]

\* The value of a piece of such a branch by the quantifier rule.
RuleValue(p) ==
    IF p.q # "" /\ MinOf(p) = 0 THEN USELESS ELSE Str(<<p.ch>>)

RECURSIVE HasUseless(_)
HasUseless(t) == t = USELESS \/ \E i \in 1..Len(t.c) : HasUseless(t.c[i])

---------------------------------------------------------------------------
(* Properties *)

\* C1: every text a regex matches satisfies the regex's simplified tree.
QueryAdmitsEveryMatch ==
    pc = "simplified" =>
        \A t \in Texts : Matches(regex, t) => Satisfies(simple, t)

\* C2: an alternation with a branch that yields no guaranteed substring
\* simplifies to a value that asks for nothing.
WeakBranchLiftsConstraint ==
    (pc = "simplified" /\ \E i \in 1..Len(regex) : NoGuaranteedSubstring(regex[i]))
        => simple \in NoConstraint

\* C3: a regex that can match the empty string simplifies to a value that
\* asks for nothing.
EmptyMatchLiftsConstraint ==
    (pc = "simplified" /\ Matches(regex, <<>>)) => simple \in NoConstraint

\* C4: trigram_query of a literal of NGRAM_LENGTH characters or more is the
\* And of its windows, in order.
LiteralGivesWindows ==
    (pc = "queried" /\ PlainLiteral(regex) /\ Len(regex[1]) >= NGRAM_LENGTH)
        => query = SubstringTree("And", Windows(LiteralOf(regex)))

\* C5: simplifying a simplified tree changes nothing.
SimplifyIdempotent == spc = "twice" => s2 = s1

SimplifyIdempotentWitness ==
    /\ spc = "twice"
    /\ T.k = "And" /\ Len(T.c) = 3
    /\ s1.k = "And" /\ Len(s1.c) = 2
    /\ s1 # T

\* C6: the children of an And are the maximal runs of appended strings and
\* the appended nodes, in order; USELESS is no child; the And is mid-run
\* exactly when the last thing appended was a string.
AndChildrenAreRuns ==
    /\ a_children = RunsOf(a_hist)
    /\ \A i \in 1..Len(a_children) : a_children[i] # USELESS
    /\ a_interrupted <=> (a_hist = <<>> \/ a_hist[Len(a_hist)].k # "str")

AndChildrenAreRunsWitness ==
    /\ Len(a_hist) = 3
    /\ a_hist[1] = Str(<<"a">>) /\ a_hist[2] = USELESS /\ a_hist[3] = Str(<<"b">>)
    /\ a_children = <<Str(<<"a">>), Str(<<"b">>)>>

\* C7: the visitor and the simplifier end in no error.
VisitorIsTotal == ~IsError(tree) /\ ~IsError(simple)

\* C8, as the specification has it: simplifying leaves USELESS as it is, at
\* the top and inside a tree.
UselessSurvivesSimplify ==
    spc = "once" => /\ T = USELESS => s1 = USELESS
                    /\ HasUseless(T) => HasUseless(s1)

\* C8, amended: simplifying USELESS gives the empty string, and no Useless
\* is left anywhere in a simplified tree.
UselessSimplifiedAway ==
    spc = "once" => /\ T = USELESS => s1 = Str(<<>>)
                    /\ ~HasUseless(s1)

UselessSimplifiedAwayWitness ==
    /\ spc = "once"
    /\ T # USELESS /\ HasUseless(T)
    /\ s1.k \in {"And", "Or"}

\* C9: in a branch of literal characters, a quantified one is Useless when
\* its minimum is 0 and the character itself otherwise, so the And holds the
\* runs these values make.
QuantifierRule ==
    (/\ pc \in {"visited", "error"}
     /\ Len(regex) = 1
     /\ LiteralAtomsOnly(regex[1])
     /\ RunsOf([i \in 1..Len(regex[1]) |-> RuleValue(regex[1][i])]) # <<>>)
        => tree = SubstringTree("Or",
                     <<SubstringTree("And",
                         RunsOf([i \in 1..Len(regex[1]) |-> RuleValue(regex[1][i])]))>>)

\* C10: the chain's value is USELESS exactly when a USELESS branch was
\* passed, it is otherwise the Or of the branches passed, in order, and once
\* USELESS it stays USELESS.
OrAbsorbedByUseless ==
    /\ [](/\ o_val = USELESS <=> \E i \in 1..Len(o_hist) : o_hist[i] = USELESS
          /\ o_val # USELESS => o_val = SubstringTree("Or", o_hist))
    /\ [][o_val = USELESS => o_val' = USELESS]_vars

OrAbsorbedByUselessWitness ==
    /\ o_val = USELESS
    /\ Len(o_hist) = 3
    /\ o_hist[1] = SubstringTree("And", <<>>)
    /\ o_hist[2] = USELESS
    /\ o_hist[3] = Str(<<"a", "b", "c">>)

====
